---- MODULE Spec2Model ----
(***************************************************************************)
(* A model of kalpak.py: the command-line front end (validate_args), the   *)
(* dispatcher (download_urls), the per-URL retry loop (fetch) and the      *)
(* persistence step (save_to_directory).                                   *)
(*                                                                         *)
(* A coroutine is modelled by a record with a program counter; one action  *)
(* is the code that runs between two suspension points (await).  The       *)
(* network and the file system are the environment: every response, error  *)
(* and file-system outcome is a nondeterministic choice.                   *)
(***************************************************************************)
EXTENDS Integers, Sequences, FiniteSets, TLC

(***************************************************************************)
(* Bounds of the model.                                                    *)
(***************************************************************************)
MaxUrls == 2          \* longest input list
MaxRetries == 2       \* largest value of --retries
MaxConnections == 2   \* largest value of --max-connections

(***************************************************************************)
(* Values.  Python's None is the string "None"; URLs, bodies and file      *)
(* names are strings.                                                      *)
(***************************************************************************)
None == "None"

\* The input URLs the model draws from: three valid ones (two of them share
\* the last path segment, one has an empty path) and two invalid ones (a
\* host without a scheme, a scheme without a host).
InputUrls ==
    { "http://a.test/x.bin", "http://b.test/x.bin", "http://a.test",
      "//a.test/x.bin", "http:///x.bin" }

\* The values a server puts in a Location header: for the first input URL
\* this is a redirect to itself, for the others a redirect elsewhere.
RedirectTargets == { "http://a.test/x.bin" }

\* The result of response.headers.get("Location"): None when absent.
Locations == RedirectTargets \cup {None}

\* The responses of the environment, as <<status, Location>>: a 3xx
\* response comes with or without a Location header, the others without.
Responses ==
    { <<st, loc>> \in {200, 206, 301, 302, 303, 304, 404, 500} \X Locations :
         loc # None => st \in {301, 302, 303} }

\* The response bodies: b"" is a body too.
Bodies == { "", "data" }

\* The exceptions an attempt can end in.  "ClientError" stands for the
\* classes of the first except clause of fetch (the aiohttp errors and
\* asyncio.TimeoutError), "Exception" for any other exception, and
\* "TypeError" is what session.get raises when the URL is None.
NetworkErrors == { "ClientError" }
OtherErrors == { "Exception" }

\* urllib.parse.urlparse on the strings above: "raises" stands for the
\* ValueError urlparse raises on an unbalanced bracket in the host.
urlparse(u) ==
    CASE u = "http://a.test/x.bin" ->
            [raises |-> FALSE, scheme |-> "http", netloc |-> "a.test", path |-> "/x.bin"]
      [] u = "http://b.test/x.bin" ->
            [raises |-> FALSE, scheme |-> "http", netloc |-> "b.test", path |-> "/x.bin"]
      [] u = "http://a.test" ->
            [raises |-> FALSE, scheme |-> "http", netloc |-> "a.test", path |-> ""]
      [] u = "//a.test/x.bin" ->
            [raises |-> FALSE, scheme |-> "", netloc |-> "a.test", path |-> "/x.bin"]
      [] u = "http:///x.bin" ->
            [raises |-> FALSE, scheme |-> "http", netloc |-> "", path |-> "/x.bin"]
      [] OTHER ->
            [raises |-> TRUE, scheme |-> "", netloc |-> "", path |-> ""]

\* is_valid_url with any() in place of all().
is_valid_url_any(u) ==
    LET result == urlparse(u)
    IN  IF result.raises THEN FALSE
        ELSE result.scheme # "" \/ result.netloc # ""

\* is_valid_url: all([scheme, netloc]), and False on ValueError.
is_valid_url(u) ==
    LET result == urlparse(u)
    IN  IF result.raises THEN FALSE
        ELSE result.scheme # "" /\ result.netloc # ""

\* Python's truth value of an Optional[str].
Truthy(x) == x # None /\ x # ""

NotValid(u) == ~is_valid_url(u)

\* All sequences over S of length at most n.
SeqsUpTo(S, n) == UNION { [1..k -> S] : k \in 0..n }

(***************************************************************************)
(* State.                                                                  *)
(***************************************************************************)
VARIABLES
    args,          \* the parsed command line: retries, max_connections
    urls,          \* the input list
    outdir,        \* the destination path as save_to_directory found or left
                   \* it: "dir", "file", "absent"; None before it has looked
    dpc,           \* where main / download_urls / save_to_directory is
    valid_urls,    \* download_urls' valid_urls
    skipped,       \* the invalid URLs reported as skipped
    tasks,         \* download_urls' tasks: one fetch coroutine per valid URL
    idx,           \* position of the for loop over zip(valid_urls, tasks)
    results,       \* download_urls' results: a list of <<url, content>>
    data,          \* save_to_directory's data: the dict as a list of items
    pos,           \* position of save_to_directory's for loop over data.items()
    files,         \* the files of the destination directory: name -> content
    log,           \* history: per task, the attempts of its fetch invocation
    saves,         \* history: the number of calls of save_to_directory
    written        \* history: the outcome of each write of the loop over data

vars == <<args, urls, outdir, dpc, valid_urls, skipped, tasks, idx, results,
          data, pos, files, log, saves, written>>

dispatcherVars == <<valid_urls, skipped, idx, results>>
diskVars == <<outdir, data, pos, files, saves, written>>
inputVars == <<args, urls>>

\* The names save_to_directory can write to.
FileNames == { "x.bin", "downloaded_file" }

\* The pool of User-Agent strings.
USER_AGENTS ==
    { "Mozilla/5.0 (Windows NT 10.0; Win64; x64) AppleWebKit/537.36 (KHTML, like Gecko) Chrome/91.0.4472.124 Safari/537.36",
      "Mozilla/5.0 (Macintosh; Intel Mac OS X 10_15_7) AppleWebKit/537.36 (KHTML, like Gecko) Chrome/91.0.4472.124 Safari/537.36",
      "Mozilla/5.0 (Windows NT 10.0; Win64; x64; rv:89.0) Gecko/20100101 Firefox/89.0",
      "Mozilla/5.0 (Macintosh; Intel Mac OS X 10.15; rv:89.0) Gecko/20100101 Firefox/89.0" }

\* A task before its coroutine has been started: url is fetch's working
\* URL, attempt its loop counter, ua the User-Agent of its headers.
NewTask(u) ==
    [pc |-> "created", url |-> u, attempt |-> 0, ua |-> None, ret |-> None]

\* The history does not tell the statuses 301, 302 and 303 apart: it keeps
\* each of them as 300.
Recorded(st) == IF st \in {301, 302, 303} THEN 300 ELSE st

\* One entry of the history of a fetch invocation: the URL asked for (None
\* when the iteration had no working URL), the status received (0: none),
\* the Location header received, the exception that ended the attempt
\* ("": none) and the body read.
Entry(u, st, loc, err, body) ==
    [url |-> u, st |-> Recorded(st), loc |-> loc, err |-> err, body |-> body]

Init ==
    /\ args \in [retries : 0..MaxRetries, max_connections : 0..MaxConnections]
    /\ urls \in SeqsUpTo(InputUrls, MaxUrls)
    /\ outdir = None
    /\ dpc = "main"
    /\ valid_urls = <<>>
    /\ skipped = <<>>
    /\ tasks = <<>>
    /\ idx = 0
    /\ results = <<>>
    /\ data = <<>>
    /\ pos = 0
    /\ files = [f \in FileNames |-> None]
    /\ log = <<>>
    /\ saves = 0
    /\ written = <<>>

(***************************************************************************)
(* main and parse_args.                                                    *)
(***************************************************************************)
\* validate_args with the connection check off by one.
validate_args_zero(a) ==
    IF a.retries < 1 THEN FALSE
    ELSE IF a.max_connections < 0 THEN FALSE
    ELSE TRUE

\* validate_args without the check of retries.
validate_args_connections_only(a) ==
    IF a.max_connections < 1 THEN FALSE
    ELSE TRUE

validate_args(a) ==
    IF a.retries < 1 THEN FALSE
    ELSE IF a.max_connections < 1 THEN FALSE
    ELSE TRUE

\* parse_args: sys.exit(1) when validate_args fails; otherwise main goes
\* on to asyncio.run(download_urls(...)).
ParseArgs ==
    /\ dpc = "main"
    /\ dpc' = IF validate_args(args) THEN "download" ELSE "exit1"
    /\ UNCHANGED <<inputVars, dispatcherVars, diskVars, tasks, log>>

(***************************************************************************)
(* The connector of the session.                                           *)
(***************************************************************************)
\* TCPConnector(limit=max_connections)
ConnectorLimit == args.max_connections

\* The requests that hold a connection: sent and not yet done with.
InFlight == { i \in DOMAIN tasks : tasks[i].pc \in {"get", "read"} }

\* The connector hands out a connection when fewer than limit are in use;
\* a limit of 0 means no limit.
ConnAvailable == ConnectorLimit = 0 \/ Cardinality(InFlight) < ConnectorLimit

(***************************************************************************)
(* download_urls.                                                          *)
(***************************************************************************)
\* Lines 156-166: the connector, the partition of the input, the report of
\* the invalid URLs, one coroutine object per valid URL (none is started).
Partition ==
    /\ dpc = "download"
    /\ valid_urls' = SelectSeq(urls, is_valid_url)
    /\ skipped' = SelectSeq(urls, NotValid)
    /\ tasks' = [i \in 1..Len(valid_urls') |-> NewTask(valid_urls'[i])]
    /\ log' = [i \in 1..Len(valid_urls') |-> <<>>]
    /\ results' = <<>>
    /\ idx' = 1
    /\ dpc' = "loop"
    /\ UNCHANGED <<inputVars, diskVars>>

\* Awaited for a dispatcher that gives up at the first failed fetch.
Awaited_until_failure(i) ==
    /\ dpc = "loop"
    /\ i = idx
    /\ \A j \in 1..(i - 1) : tasks[j].ret # None

\* The task the dispatcher is suspended on in "content = await task".
Awaited(i) == dpc = "loop" /\ i = idx

\* Line 172, "await task" on a coroutine that has not run yet: the
\* coroutine starts, builds its headers with random.choice(USER_AGENTS)
\* (line 89) and enters the loop.
AwaitTask(i) ==
    /\ Awaited(i)
    /\ tasks[i].pc = "created"
    /\ \E ua \in USER_AGENTS :
          tasks' = [tasks EXCEPT ![i].pc = "loop", ![i].ua = ua]
    /\ log' = [j \in DOMAIN log |-> <<>>]
    /\ UNCHANGED <<inputVars, dispatcherVars, diskVars, dpc>>

\* Resume storing the content under the URL the coroutine ended with.
Resume_working_url(i) ==
    IF tasks'[i].pc = "returned" /\ Awaited(i)
    THEN /\ results' = IF tasks'[i].ret # None
                       THEN Append(results, <<tasks'[i].url, tasks'[i].ret>>)
                       ELSE results
         /\ idx' = idx + 1
    ELSE UNCHANGED <<results, idx>>

\* Resume storing every outcome, None included.
Resume_every_outcome(i) ==
    IF tasks'[i].pc = "returned" /\ Awaited(i)
    THEN /\ results' = Append(results, <<valid_urls[i], tasks'[i].ret>>)
         /\ idx' = idx + 1
    ELSE UNCHANGED <<results, idx>>

\* Lines 172-178, part of every step of fetch: when the step ends in a
\* return, "content = await task" gets the value in the same step (a
\* coroutine runs inside the await of its caller); the content is appended
\* to results when it is not None, and the for loop moves on.
Resume(i) ==
    IF tasks'[i].pc = "returned" /\ Awaited(i)
    THEN /\ results' = IF tasks'[i].ret # None
                       THEN Append(results, <<valid_urls[i], tasks'[i].ret>>)
                       ELSE results
         /\ idx' = idx + 1
    ELSE UNCHANGED <<results, idx>>

(***************************************************************************)
(* fetch.                                                                  *)
(***************************************************************************)
RedirectStatuses == {301, 302, 303}

\* return content / return None: the coroutine is over and its locals are
\* gone, only the returned value is left.
Return(t, content) ==
    [pc |-> "returned", url |-> None, attempt |-> 0, ua |-> None, ret |-> content]

\* NextAttempt with range(retries + 1).
NextAttempt_extra(t, u) ==
    IF t.attempt + 1 < args.retries + 1
    THEN [t EXCEPT !.pc = "loop", !.attempt = t.attempt + 1, !.url = u]
    ELSE Return(t, None)

\* The end of one iteration of "for attempt in range(retries)" with the
\* working URL u: the next iteration, or the end of the loop and
\* "return None".
NextAttempt(t, u) ==
    IF t.attempt + 1 < args.retries
    THEN [t EXCEPT !.pc = "loop", !.attempt = t.attempt + 1, !.url = u]
    ELSE Return(t, None)

\* Line 96: session.get is called with the working URL and a connection is
\* acquired; the request is on the wire.
Request(i) ==
    /\ tasks[i].pc = "loop"
    /\ Truthy(tasks[i].url)
    /\ ConnAvailable
    /\ tasks' = [tasks EXCEPT ![i].pc = "get"]
    /\ UNCHANGED <<inputVars, dispatcherVars, diskVars, dpc, log>>

\* Line 96 with no working URL (after a redirect without Location):
\* session.get raises before anything is sent, "except Exception" logs it.
RequestNoUrl(i) ==
    /\ tasks[i].pc = "loop"
    /\ ~Truthy(tasks[i].url)
    /\ log' = [log EXCEPT ![i] = Append(@, Entry(None, 0, None, "TypeError", None))]
    /\ tasks' = [tasks EXCEPT ![i] = NextAttempt(@, @.url)]
    /\ Resume(i)
    /\ UNCHANGED <<inputVars, valid_urls, skipped, diskVars, dpc>>

\* OnResponse with "continue" in place of "break" in the last branch.
OnResponse_retry(t, st, loc) ==
    IF st = 200 THEN [t EXCEPT !.pc = "read"]
    ELSE IF st \in RedirectStatuses
         THEN NextAttempt(t, loc)
         ELSE NextAttempt(t, t.url)

\* OnResponse following a redirect without counting the attempt.
OnResponse_free_redirect(t, st, loc) ==
    IF st = 200 THEN [t EXCEPT !.pc = "read"]
    ELSE IF st \in RedirectStatuses
         THEN [t EXCEPT !.pc = "loop", !.url = loc]
         ELSE Return(t, None)

\* OnResponse leaving the working URL as it is after a redirect.
OnResponse_same_url(t, st, loc) ==
    IF st = 200 THEN [t EXCEPT !.pc = "read"]
    ELSE IF st \in RedirectStatuses
         THEN NextAttempt(t, t.url)
         ELSE Return(t, None)

\* OnResponse giving up on a redirect that has no Location header.
OnResponse_stop_without_location(t, st, loc) ==
    IF st = 200 THEN [t EXCEPT !.pc = "read"]
    ELSE IF st \in RedirectStatuses /\ Truthy(loc)
         THEN NextAttempt(t, loc)
         ELSE Return(t, None)

\* Lines 97-110: what fetch does with a response of status st and Location
\* header loc, up to its next suspension.
OnResponse(t, st, loc) ==
    IF st = 200 THEN [t EXCEPT !.pc = "read"]
    ELSE IF st \in RedirectStatuses
         THEN NextAttempt(t, loc)
         ELSE Return(t, None)

\* The response headers arrive.
Respond(i, st, loc) ==
    /\ tasks[i].pc = "get"
    /\ tasks' = [tasks EXCEPT ![i] = OnResponse(@, st, loc)]
    /\ log' = IF st = 200 THEN log
              ELSE [log EXCEPT ![i] = Append(@, Entry(tasks[i].url, st, loc, "", None))]
    /\ Resume(i)
    /\ UNCHANGED <<inputVars, valid_urls, skipped, diskVars, dpc>>

\* RequestError with a retry that does not use up an attempt.
RequestError_uncounted(i, e) ==
    /\ tasks[i].pc = "get"
    /\ tasks' = [tasks EXCEPT ![i].pc = "loop"]
    /\ log' = [log EXCEPT ![i] = Append(@, Entry(tasks[i].url, 0, None, e, None))]
    /\ Resume(i)
    /\ UNCHANGED <<inputVars, valid_urls, skipped, diskVars, dpc>>

\* Lines 111-120: the request ends in an exception (connection failure,
\* timeout, client error, or anything else); it is logged and the loop
\* goes on.
RequestError(i, e) ==
    /\ tasks[i].pc = "get"
    /\ tasks' = [tasks EXCEPT ![i] = NextAttempt(@, @.url)]
    /\ log' = [log EXCEPT ![i] = Append(@, Entry(tasks[i].url, 0, None, e, None))]
    /\ Resume(i)
    /\ UNCHANGED <<inputVars, valid_urls, skipped, diskVars, dpc>>

\* ReadBody without the return: the loop goes on after the body is read.
ReadBody_no_return(i, b) ==
    /\ tasks[i].pc = "read"
    /\ tasks' = [tasks EXCEPT ![i] = NextAttempt(@, @.url)]
    /\ log' = [log EXCEPT ![i] = Append(@, Entry(tasks[i].url, 200, None, "", b))]
    /\ Resume(i)
    /\ UNCHANGED <<inputVars, valid_urls, skipped, diskVars, dpc>>

\* Lines 98-100: response.read() returns the body; fetch returns it.
ReadBody(i, b) ==
    /\ tasks[i].pc = "read"
    /\ tasks' = [tasks EXCEPT ![i] = Return(@, b)]
    /\ log' = [log EXCEPT ![i] = Append(@, Entry(tasks[i].url, 200, None, "", b))]
    /\ Resume(i)
    /\ UNCHANGED <<inputVars, valid_urls, skipped, diskVars, dpc>>

\* Line 98: response.read() raises (the connection drops or the timeout
\* expires while the body is read); the first except clause catches it.
ReadError(i, e) ==
    /\ tasks[i].pc = "read"
    /\ tasks' = [tasks EXCEPT ![i] = NextAttempt(@, @.url)]
    /\ log' = [log EXCEPT ![i] = Append(@, Entry(tasks[i].url, 200, None, e, None))]
    /\ Resume(i)
    /\ UNCHANGED <<inputVars, valid_urls, skipped, diskVars, dpc>>

(***************************************************************************)
(* save_to_directory.                                                      *)
(***************************************************************************)
\* DictOf keeping the value of a key's first occurrence.
RECURSIVE DictOf_first(_)
DictOf_first(r) ==
    IF r = <<>> THEN <<>>
    ELSE LET before == DictOf_first(SubSeq(r, 1, Len(r) - 1))
             item == r[Len(r)]
         IN  IF \E k \in DOMAIN before : before[k][1] = item[1]
             THEN before
             ELSE Append(before, item)

\* dict(results): one item per key, at the place of the key's first
\* occurrence, with the value of its last occurrence.
RECURSIVE DictOf(_)
DictOf(r) ==
    IF r = <<>> THEN <<>>
    ELSE LET before == DictOf(SubSeq(r, 1, Len(r) - 1))
             item == r[Len(r)]
         IN  IF \E k \in DOMAIN before : before[k][1] = item[1]
             THEN [k \in DOMAIN before |->
                      IF before[k][1] = item[1] THEN item ELSE before[k]]
             ELSE Append(before, item)

\* os.path.basename on the paths of the model.
basename(path) ==
    CASE path = "/x.bin" -> "x.bin"
      [] OTHER -> ""

get_filename_from_url(u) ==
    LET name == basename(urlparse(u).path)
    IN  IF name # "" THEN name ELSE "downloaded_file"

\* SaveToDirectory leaving the loop one task early.
SaveToDirectory_early(found, ok) ==
    /\ dpc = "loop"
    /\ idx >= Len(valid_urls)
    /\ data' = DictOf(results)
    /\ saves' = saves + 1
    /\ pos' = 1
    /\ log' = [j \in DOMAIN log |-> <<>>]
    /\ IF found = "absent"
       THEN IF ok THEN outdir' = "dir" /\ dpc' = "write"
                  ELSE outdir' = "absent" /\ dpc' = "done"
       ELSE ok /\ outdir' = found /\ dpc' = "write"
    /\ UNCHANGED <<inputVars, dispatcherVars, tasks, files, written>>

\* SaveToDirectory without the return after a failed os.makedirs.
SaveToDirectory_no_return(found, ok) ==
    /\ dpc = "loop"
    /\ idx > Len(valid_urls)
    /\ data' = DictOf(results)
    /\ saves' = saves + 1
    /\ pos' = 1
    /\ log' = [j \in DOMAIN log |-> <<>>]
    /\ IF found = "absent"
       THEN IF ok THEN outdir' = "dir" /\ dpc' = "write"
                  ELSE outdir' = "absent" /\ dpc' = "write"
       ELSE ok /\ outdir' = found /\ dpc' = "write"
    /\ UNCHANGED <<inputVars, dispatcherVars, tasks, files, written>>

\* Lines 180-181 and 130-138: the loop over the tasks is over; the dict is
\* built and save_to_directory is called.  found is what is at output_dir
\* ("absent", "dir" or "file"); when nothing is there os.makedirs is
\* called, and ok tells whether it succeeds: if not, the function returns.
SaveToDirectory(found, ok) ==
    /\ dpc = "loop"
    /\ idx > Len(valid_urls)
    /\ data' = DictOf(results)
    /\ saves' = saves + 1
    /\ pos' = 1
    /\ log' = [j \in DOMAIN log |-> <<>>]
    /\ IF found = "absent"
       THEN IF ok THEN outdir' = "dir" /\ dpc' = "write"
                  ELSE outdir' = "absent" /\ dpc' = "done"
       ELSE ok /\ outdir' = found /\ dpc' = "write"
    /\ UNCHANGED <<inputVars, dispatcherVars, tasks, files, written>>

\* Lines 140-150: one iteration of the loop over data.items(); ok tells
\* whether open and write succeed (never when the path is a regular file).
WriteFile(ok) ==
    /\ dpc = "write"
    /\ pos <= Len(data)
    /\ ok => outdir = "dir"
    /\ files' = IF ok
                THEN [files EXCEPT ![get_filename_from_url(data[pos][1])] = data[pos][2]]
                ELSE files
    /\ pos' = pos + 1
    /\ written' = Append(written, ok)
    /\ UNCHANGED <<inputVars, dispatcherVars, tasks, log, outdir, data, saves, dpc>>

\* save_to_directory and download_urls return.
Finish ==
    /\ dpc = "write"
    /\ pos > Len(data)
    /\ dpc' = "done"
    /\ UNCHANGED <<inputVars, dispatcherVars, diskVars, tasks, log>>

(***************************************************************************)
(* The specification.                                                      *)
(***************************************************************************)
Next ==
    \/ ParseArgs
    \/ Partition
    \/ \E i \in DOMAIN tasks : AwaitTask(i)
    \/ \E i \in DOMAIN tasks : Request(i)
    \/ \E i \in DOMAIN tasks : RequestNoUrl(i)
    \/ \E i \in DOMAIN tasks, r \in Responses : Respond(i, r[1], r[2])
    \/ \E i \in DOMAIN tasks, e \in NetworkErrors \cup OtherErrors : RequestError(i, e)
    \/ \E i \in DOMAIN tasks, b \in Bodies : ReadBody(i, b)
    \/ \E i \in DOMAIN tasks, e \in NetworkErrors : ReadError(i, e)
    \/ \E found \in {"absent", "dir", "file"}, ok \in BOOLEAN : SaveToDirectory(found, ok)
    \/ \E ok \in BOOLEAN : WriteFile(ok)
    \/ Finish

Spec == Init /\ [][Next]_vars

\* Every attempt terminates and the event loop keeps running the
\* coroutine that can run.
FairSpec == Spec /\ WF_vars(Next)

(***************************************************************************)
(* Properties.                                                             *)
(***************************************************************************)
\* The tasks whose fetch has been started and has not returned.
InProgress == { i \in DOMAIN tasks : tasks[i].pc \in {"loop", "get", "read"} }

\* The history of task i covers its whole invocation: the task has
\* returned and the history has not been dropped yet.
Complete(i) == tasks[i].pc = "returned" /\ log[i] # <<>>

\* The number of requests task i has sent so far.
Requests(i) ==
    Cardinality({ k \in DOMAIN log[i] : log[i][k].url # None })
        + (IF i \in InFlight THEN 1 ELSE 0)

\* The kinds of attempt the claims speak of.
IsNetworkError(e) == e.url # None /\ e.err \in NetworkErrors
IsRetryableError(e) == e.url # None /\ e.err \in NetworkErrors \cup OtherErrors
IsRedirect(e) == e.err = "" /\ e.st = 300 /\ e.loc # None
IsFatalStatus(e) == e.err = "" /\ e.st \notin {0, 200, 300}

\* C1: at every moment of a run the number of requests that have been sent
\* and are not yet done with is at most max_connections.
C1_InFlightBounded == Cardinality(InFlight) <= args.max_connections

\* C1: a request is on the wire in a run with max_connections = 1 and two
\* valid URLs.
C1_Witness ==
    /\ args.max_connections = 1
    /\ Len(valid_urls) = 2
    /\ Cardinality(InFlight) = 1

\* C2: fetches run concurrently: with max_connections >= 2, while the fetch
\* of one URL is in progress the fetch of another valid URL that has not
\* started yet can start.
C2_FetchesOverlap ==
    \A i, j \in DOMAIN tasks :
        (/\ args.max_connections >= 2
         /\ i \in InProgress
         /\ tasks[j].pc = "created")
        => ENABLED AwaitTask(j)

\* C3: a fetch invocation all of whose attempts end in a network error
\* sends exactly retries requests and returns None.
C3_AllNetworkErrors ==
    \A i \in DOMAIN tasks :
        (Complete(i) /\ \A k \in DOMAIN log[i] : IsNetworkError(log[i][k]))
        => /\ Requests(i) = args.retries
           /\ Len(log[i]) = args.retries
           /\ tasks[i].ret = None

\* C3: a fetch invocation has returned after two attempts that both ended
\* in a network error.
C3_Witness ==
    \E i \in DOMAIN tasks :
        /\ Complete(i)
        /\ Len(log[i]) = 2
        /\ \A k \in DOMAIN log[i] : IsNetworkError(log[i][k])

\* C4: a response whose status is neither 200 nor 301/302/303 ends the
\* invocation at once: it is the last attempt, no request follows, and the
\* invocation returns None.
C4_FatalStatusEnds ==
    \A i \in DOMAIN tasks :
        \A k \in DOMAIN log[i] :
            IsFatalStatus(log[i][k])
            => /\ k = Len(log[i])
               /\ tasks[i].pc = "returned"
               /\ tasks[i].ret = None
               /\ Requests(i) = k

\* C4: with attempts to spare, a first response of status 304 has ended an
\* invocation.
C4_Witness ==
    \E i \in DOMAIN tasks :
        /\ args.retries >= 2
        /\ Len(log[i]) = 1
        /\ log[i][1].st = 304
        /\ tasks[i].pc = "returned"

\* C5 as stated: an attempt answered by a 301/302/303 with a Location
\* header and followed by an attempt answered with status 200 makes the
\* invocation return content, stored under the input URL.
C5_RedirectThenStatus200 ==
    \A i \in DOMAIN tasks :
        \A k \in DOMAIN log[i] :
            (/\ k + 1 \in DOMAIN log[i]
             /\ IsRedirect(log[i][k])
             /\ log[i][k + 1].st = 200)
            => /\ tasks[i].pc = "returned"
               /\ tasks[i].ret # None
               /\ idx > i => results[Len(results)] = <<valid_urls[i], tasks[i].ret>>

\* C5, amended: an attempt answered by a 301/302/303 with a Location
\* header and followed by an attempt answered with status 200 whose body
\* is read without error makes the invocation return that body after that
\* attempt, and the dispatcher stores it under the input URL.
C5_RedirectThenBody ==
    \A i \in DOMAIN tasks :
        \A k \in DOMAIN log[i] :
            (/\ k + 1 \in DOMAIN log[i]
             /\ IsRedirect(log[i][k])
             /\ log[i][k + 1].st = 200
             /\ log[i][k + 1].err = "")
            => /\ tasks[i].pc = "returned"
               /\ tasks[i].ret = log[i][k + 1].body
               /\ tasks[i].ret # None
               /\ Len(log[i]) = k + 1
               /\ idx > i => results[Len(results)] = <<valid_urls[i], log[i][k + 1].body>>

\* C5: the content of a URL that redirected elsewhere has been collected.
C5_Witness ==
    \E i \in DOMAIN tasks :
        /\ Len(log[i]) = 2
        /\ IsRedirect(log[i][1])
        /\ log[i][1].loc # valid_urls[i]
        /\ log[i][2].st = 200
        /\ log[i][2].err = ""
        /\ idx > i

\* C6 as stated: k retryable errors followed by an attempt that receives
\* status 200 make the invocation return content after k + 1 requests.
C6_ErrorsThenStatus200 ==
    \A i \in DOMAIN tasks :
        \A n \in DOMAIN log[i] :
            (/\ \A k \in 1..(n - 1) : IsRetryableError(log[i][k])
             /\ log[i][n].st = 200)
            => /\ tasks[i].pc = "returned"
               /\ tasks[i].ret # None
               /\ Len(log[i]) = n

\* C6, amended: k retryable errors followed by an attempt that receives
\* status 200 and whose body is read without error make the invocation
\* return that body, after exactly k + 1 requests.
C6_ErrorsThenBody ==
    \A i \in DOMAIN tasks :
        \A n \in DOMAIN log[i] :
            (/\ \A k \in 1..(n - 1) : IsRetryableError(log[i][k])
             /\ log[i][n].st = 200
             /\ log[i][n].err = "")
            => /\ tasks[i].pc = "returned"
               /\ tasks[i].ret = log[i][n].body
               /\ tasks[i].ret # None
               /\ Len(log[i]) = n
               /\ Requests(i) = n

\* C6: an invocation has returned the body of its second attempt after a
\* first attempt that ended in an error.
C6_Witness ==
    \E i \in DOMAIN tasks :
        /\ Len(log[i]) = 2
        /\ IsRetryableError(log[i][1])
        /\ log[i][1].st = 0
        /\ log[i][2].st = 200
        /\ log[i][2].err = ""
        /\ tasks[i].pc = "returned"

\* C7: every redirect uses up one attempt: while all the responses of an
\* invocation are redirects with a Location header, the attempt counter
\* equals their number, and once the invocation has returned it has sent
\* exactly retries requests and returned None.
C7_RedirectsUseBudget ==
    \A i \in DOMAIN tasks :
        (\A k \in DOMAIN log[i] : IsRedirect(log[i][k]))
        => /\ i \in InProgress => (tasks[i].attempt = Len(log[i]) /\ Len(log[i]) < args.retries)
           /\ Complete(i) => /\ Len(log[i]) = args.retries
                             /\ Requests(i) = args.retries
                             /\ tasks[i].ret = None

\* C7: an invocation has returned after two redirects and nothing else.
C7_Witness ==
    \E i \in DOMAIN tasks :
        /\ Complete(i)
        /\ Len(log[i]) = 2
        /\ \A k \in DOMAIN log[i] : IsRedirect(log[i][k])

\* The URLs the claim calls invalid.
LacksSchemeOrHost(u) == urlparse(u).scheme = "" \/ urlparse(u).netloc = ""

\* C8: no fetch invocation exists for an input URL that lacks a scheme or
\* a host, and no request is sent to it.
C8_InvalidNeverFetched ==
    \A n \in DOMAIN urls :
        LacksSchemeOrHost(urls[n])
        => \A i \in DOMAIN tasks :
              /\ valid_urls[i] # urls[n]
              /\ tasks[i].url # urls[n]
              /\ \A k \in DOMAIN log[i] : log[i][k].url # urls[n]

\* C8: a run with an invalid and a valid input URL is over, and it has
\* reported the invalid one.
C8_Witness ==
    /\ dpc = "done"
    /\ Len(valid_urls) = 1
    /\ Len(skipped) = 1
    /\ LacksSchemeOrHost(skipped[1])

\* C9: every run of download_urls reaches the call of save_to_directory.
C9_ReachesPersistence == (dpc = "download") ~> (saves = 1)

\* C9: save_to_directory has been called in a run with an invalid URL and
\* a URL whose fetch failed.
C9_Witness ==
    /\ saves = 1
    /\ skipped # <<>>
    /\ \E i \in DOMAIN tasks : tasks[i].pc = "returned" /\ tasks[i].ret = None

\* C10: save_to_directory is called at most once, and exactly once in a
\* run that has ended; from its call on every fetch invocation has
\* returned, so that no file is written and no request is sent while a
\* fetch is pending or in progress.
C10_PersistAfterFetches ==
    /\ saves <= 1
    /\ dpc \in {"write", "done"} => saves = 1
    /\ dpc \in {"main", "exit1", "download"} => saves = 0
    /\ (saves >= 1 \/ \E f \in FileNames : files[f] # None)
       => /\ \A i \in DOMAIN tasks : tasks[i].pc = "returned"
          /\ InFlight = {}
          /\ idx = Len(valid_urls) + 1

\* C10: a run with two valid URLs has ended with a file written.
C10_Witness ==
    /\ dpc = "done"
    /\ saves = 1
    /\ Len(valid_urls) = 2
    /\ \E f \in FileNames : files[f] # None

\* The tasks the dispatcher has collected the outcome of.
Collected == { i \in DOMAIN tasks : i < idx /\ tasks[i].pc = "returned" }

\* Every item of the sequence r is the outcome of a collected successful
\* fetch of a valid input URL.
OnlySuccesses(r) ==
    \A k \in DOMAIN r :
        /\ is_valid_url(r[k][1])
        /\ \E n \in DOMAIN urls : urls[n] = r[k][1]
        /\ r[k][2] # None
        /\ \E i \in Collected : valid_urls[i] = r[k][1] /\ tasks[i].ret = r[k][2]

\* C11: results, and the dict made of it, hold only successful outcomes:
\* each key is a valid input URL whose fetch returned content, each value
\* is the content such a fetch returned, a URL whose fetches all returned
\* None is no key; the dict handed to save_to_directory has a key for
\* every valid URL whose fetch returned content.
C11_OnlySuccesses ==
    /\ OnlySuccesses(results)
    /\ OnlySuccesses(data)
    /\ \A i \in Collected :
          tasks[i].ret # None => \E k \in DOMAIN results : results[k][1] = valid_urls[i]
    /\ saves = 1 =>
          /\ \A i \in DOMAIN tasks :
                tasks[i].ret # None => \E k \in DOMAIN data : data[k][1] = valid_urls[i]
          /\ \A k \in DOMAIN results : \E m \in DOMAIN data : data[m][1] = results[k][1]

\* C11: save_to_directory has been called with one item after a fetch
\* that returned None and a fetch of another URL that returned content.
C11_Witness ==
    /\ saves = 1
    /\ Len(valid_urls) = 2
    /\ valid_urls[1] # valid_urls[2]
    /\ tasks[1].ret = None
    /\ tasks[2].ret # None
    /\ Len(data) = 1

\* C12: a valid URL that occurs twice in the input has one fetch
\* invocation per occurrence, and when both return content the dict handed
\* to save_to_directory has one item for the URL, with the content of the
\* later occurrence.
C12_DuplicateUrl ==
    /\ dpc \in {"loop", "write", "done"} =>
          /\ valid_urls = SelectSeq(urls, is_valid_url)
          /\ DOMAIN tasks = DOMAIN valid_urls
    /\ \A i, j \in DOMAIN tasks :
          (/\ saves = 1
           /\ i < j
           /\ valid_urls[i] = valid_urls[j]
           /\ tasks[i].ret # None
           /\ tasks[j].ret # None
           /\ \A l \in DOMAIN tasks :
                 (l > j /\ valid_urls[l] = valid_urls[j]) => tasks[l].ret = None)
          => /\ Cardinality({k \in DOMAIN data : data[k][1] = valid_urls[j]}) = 1
             /\ \A k \in DOMAIN data :
                   data[k][1] = valid_urls[j] => data[k][2] = tasks[j].ret

\* C12: save_to_directory has been called after two fetches of the same
\* URL that returned different contents.
C12_Witness ==
    /\ saves = 1
    /\ Len(urls) = 2
    /\ urls[1] = urls[2]
    /\ Len(tasks) = 2
    /\ tasks[1].ret # None
    /\ tasks[2].ret # None
    /\ tasks[1].ret # tasks[2].ret
    /\ Len(data) = 1

\* The files that exist in the destination directory.
FilesOnDisk == { f \in FileNames : files[f] # None }

\* save_to_directory has returned after creating or finding the directory
\* and writing every item without error.
AllWritten ==
    /\ dpc = "done"
    /\ outdir = "dir"
    /\ Len(written) = Len(data)
    /\ \A k \in DOMAIN written : written[k]

\* C13: after a save_to_directory in which the directory is there and every
\* write succeeds, the directory holds as many files as the dict has items
\* and each item's content is the content of the file named after its URL.
C13_OneFilePerUrl ==
    AllWritten =>
        /\ Cardinality(FilesOnDisk) = Len(data)
        /\ \A k \in DOMAIN data : files[get_filename_from_url(data[k][1])] = data[k][2]

\* Task i sends a request whose User-Agent header is ua.
SendsAgent(i, ua) == Request(i) /\ tasks'[i].ua = ua

\* The User-Agent of a fetch invocation does not change while it runs.
AgentKeptAcrossAttempts ==
    [][\A i \in DOMAIN tasks :
          (i \in InProgress /\ tasks'[i].pc \in {"loop", "get", "read"})
          => tasks'[i].ua = tasks[i].ua]_vars

\* C14: the User-Agent is chosen anew for each attempt: with retries >= 2,
\* an invocation that has sent a request and is about to send the next one
\* can send it with a User-Agent other than the one it sent before.
C14_AgentPerAttempt ==
    \A i \in DOMAIN tasks :
        (/\ args.retries >= 2
         /\ tasks[i].pc = "loop"
         /\ Requests(i) >= 1
         /\ ENABLED Request(i))
        => \E ua \in USER_AGENTS \ {tasks[i].ua} : ENABLED SendsAgent(i, ua)

\* C15: a run with retries < 1 or max_connections < 1 does not get past
\* parse_args: it ends in sys.exit(1) with no fetch invocation created or
\* started, no request sent, no call of save_to_directory and no file
\* written.
C15_InvalidArgsExit ==
    (args.retries < 1 \/ args.max_connections < 1)
    => /\ dpc \in {"main", "exit1"}
       /\ dpc = "main" => ENABLED ParseArgs
       /\ tasks = <<>>
       /\ log = <<>>
       /\ InFlight = {}
       /\ results = <<>>
       /\ saves = 0
       /\ written = <<>>
       /\ FilesOnDisk = {}

\* C15: a run with retries = 0 and a valid input URL has ended in
\* sys.exit(1).
C15_Witness ==
    /\ dpc = "exit1"
    /\ args.retries = 0
    /\ args.max_connections >= 1
    /\ \E n \in DOMAIN urls : is_valid_url(urls[n])

\* The number of errors save_to_directory has reported: one when
\* os.makedirs failed, one for every write that failed.
SaveErrors ==
    (IF dpc = "done" /\ outdir = "absent" THEN 1 ELSE 0)
        + Cardinality({ k \in DOMAIN written : ~written[k] })

\* save_to_directory has returned and there is no directory at the
\* destination: os.makedirs failed, or a regular file has the name.
NoDirectory == dpc = "done" /\ saves = 1 /\ outdir \in {"absent", "file"}

FileOf(k) == get_filename_from_url(data[k][1])

\* No two items of the dict are written to the same file.
DistinctFileNames == \A k, m \in DOMAIN data : FileOf(k) = FileOf(m) => k = m

\* With distinct file names, a write is attempted for every item and the
\* items whose write succeeded are on disk.
WritesIndependent ==
    (dpc = "done" /\ saves = 1 /\ outdir # "absent" /\ DistinctFileNames)
    => /\ Len(written) = Len(data)
       /\ \A k \in DOMAIN data : written[k] => files[FileOf(k)] = data[k][2]

\* C17: once save_to_directory has gone through its loop, a write has been
\* attempted for every item of the dict, and every item whose write
\* succeeded is on disk, whatever happened to the other writes.
C17_WriteFailureIsolated ==
    (dpc = "done" /\ saves = 1 /\ outdir # "absent")
    => /\ Len(written) = Len(data)
       /\ \A k \in DOMAIN data : written[k] => files[FileOf(k)] = data[k][2]

\* C18: whatever the responses and errors, a fetch invocation sends at
\* most retries requests and goes through at most retries iterations, it
\* has sent at least one request when it returns, and it returns None when
\* its loop ends without a response of status 200.
C18_RequestsBounded ==
    \A i \in DOMAIN tasks :
        /\ Requests(i) <= args.retries
        /\ Len(log[i]) <= args.retries
        /\ i \in InProgress => tasks[i].attempt < args.retries
        /\ i \in InFlight => Requests(i) >= 1
        /\ Complete(i) =>
              /\ Requests(i) >= 1
              /\ log[i][1].url = valid_urls[i]
              /\ (\A k \in DOMAIN log[i] : log[i][k].st # 200) => tasks[i].ret = None

\* C18: an invocation has returned None after a redirect followed by an
\* error other than a network error, with retries = 2.
C18_Witness ==
    \E i \in DOMAIN tasks :
        /\ Complete(i)
        /\ args.retries = 2
        /\ Len(log[i]) = 2
        /\ IsRedirect(log[i][1])
        /\ log[i][2].err \in OtherErrors
        /\ Requests(i) = 2
        /\ tasks[i].ret = None

\* The working URL an attempt leaves to the next one: the Location of a
\* 301/302/303 response, the URL of the attempt otherwise.
WorkingUrlAfter(e) == IF e.err = "" /\ e.st = 300 THEN e.loc ELSE e.url

\* Every attempt but the first goes to the working URL the attempt before
\* it has left, and so does the attempt to come.
FollowsWorkingUrl(i) ==
    /\ \A k \in DOMAIN log[i] :
          k > 1 => log[i][k].url = WorkingUrlAfter(log[i][k - 1])
    /\ (i \in InProgress /\ log[i] # <<>>)
          => tasks[i].url = WorkingUrlAfter(log[i][Len(log[i])])

IsBareRedirect(e) == e.err = "" /\ e.st = 300 /\ ~Truthy(e.loc)

\* C20: a 301/302/303 response without a Location header does not end the
\* invocation: the working URL is empty from then on, every later
\* iteration sends nothing and ends in a caught exception, and the
\* invocation returns None after exactly retries iterations.
C20_BareRedirectGoesOn ==
    \A i \in DOMAIN tasks :
        \A k \in DOMAIN log[i] :
            IsBareRedirect(log[i][k])
            => /\ \A m \in DOMAIN log[i] :
                     m > k => /\ log[i][m].url = None
                              /\ log[i][m].st = 0
                              /\ log[i][m].err # ""
               /\ Requests(i) = k
               /\ i \notin InFlight
               /\ i \in InProgress => (~Truthy(tasks[i].url) /\ tasks[i].attempt = Len(log[i]))
               /\ k < args.retries => (tasks[i].pc = "returned" => Len(log[i]) > k)
               /\ tasks[i].pc = "returned" => (Len(log[i]) = args.retries /\ tasks[i].ret = None)

\* C20: with retries = 2, an invocation has returned None after a redirect
\* without Location and an iteration without working URL.
C20_Witness ==
    \E i \in DOMAIN tasks :
        /\ Complete(i)
        /\ args.retries = 2
        /\ Len(log[i]) = 2
        /\ IsBareRedirect(log[i][1])
        /\ log[i][2].url = None
        /\ tasks[i].ret = None

====
